---- MODULE Spec2Model ----
(***************************************************************************)
(* The notebook nl_manifolds.ipynb run top to bottom: the POD cell, the    *)
(* POD-based manifold cell and the alternating-minimization cell.          *)
(*                                                                         *)
(* Matrices are abstracted to the computation that produced them: a value  *)
(* is a record holding the source line of the assignment that wrote it     *)
(* (site), the outer iteration in which it was written (it: 0 for the      *)
(* cells before the loop, niter+1 inside the loop) and the identities of   *)
(* the operands the right-hand side read (args).  Scalars that steer the   *)
(* control flow (energy, nrg_old, diff, tol, max_iter, niter, snapshot)    *)
(* are integers; energy is drawn from a bounded set because its value is   *)
(* the result of floating-point linear algebra on abstracted data.         *)
(***************************************************************************)
EXTENDS Integers, Sequences, FiniteSets, TLC

\* ---- model parameters of the notebook (cell "Choose the model parameters")
p == 3
r == 2
q == 1
\* rows of the data matrix S = reshape([xx, yy, fxy], (3, num_snapshots))
n == 3

\* ---- bounds of the model
MaxSnapshots == 4
MaxIter == 3
MaxTol == 2
MaxEnergy == 2

\* gamma = 0 in the notebook; any gamma > 0 makes Poly @ Poly.T + gamma*I
\* positive definite
GammaValues == {0, 1}

\* a non-finite float (0/0 in the energy quotient); every comparison with it
\* is False
NaN == -1

VARIABLES
  S, Sref,                         \* data matrix, reference state
  num_snapshots, gamma, tol, max_iter,
  U, Vr, Vbar, Omega,              \* factorizations and the two bases
  Shat, Poly, Xi,                  \* reduced coordinates, features, coefficients
  nrg_old, energy, diff,           \* convergence bookkeeping
  niter, snapshot,                 \* loop variables (-1: not bound yet)
  Gamma_MAM,                       \* final reconstruction
  pc, error,                       \* position in the notebook, raised exception
  stdout,                          \* what print() has written
  trace                            \* history: the steps executed so far

vars == <<S, Sref, num_snapshots, gamma, tol, max_iter, U, Vr, Vbar, Omega,
          Shat, Poly, Xi, nrg_old, energy, diff, niter, snapshot, Gamma_MAM,
          pc, error, stdout, trace>>

\* ------------------------------------------------------------ values

Min(a, b) == IF a < b THEN a ELSE b

\* a name that has not been assigned yet
Undef == [site |-> 0, it |-> 0]

\* which assignment wrote the value, and in which outer iteration
Id(v) == <<v.site, v.it>>

\* identities of the columns of a matrix that is kept column by column
ColIds(M) == [j \in DOMAIN M |-> Id(M[j])]

\* range(num_snapshots)
Columns == 0 .. (num_snapshots - 1)

\* number of columns of a slice
Width(B) == Cardinality(B.cols)

\* M[:, lo:hi] : numpy clips the slice to the columns M has
Slice(site, it, M, lo, hi) ==
  [site |-> site, it |-> it, of |-> Id(M),
   cols |-> {c \in lo .. (hi - 1) : c < M.width}]

\* U of np.linalg.svd(S - Sref, full_matrices=False): min(n, k) columns
Svd(site, it, SNow, SrefNow) ==
  [site |-> site, it |-> it, width |-> Min(n, SNow.cols),
   args |-> [S |-> Id(SNow), Sref |-> Id(SrefNow)]]

\* column j of Vr.T @ (S - Sref)
Project(site, it, j, VrNow, SNow, SrefNow) ==
  [site |-> site, it |-> it, col |-> j,
   args |-> [Vr |-> Id(VrNow), S |-> Id(SNow), Sref |-> Id(SrefNow)]]

\* polynomial_form(x): [x**degree for degree in range(2, p+1)]
polynomial_form(x) == [degree \in 2 .. p |-> [base |-> x, power |-> degree]]

\* np.concatenate(blocks, axis=0): the blocks stacked in the order of the list
Concatenate(blocks) == [i \in 1 .. (p - 1) |-> blocks[i + 1]]

\* Poly = np.concatenate(polynomial_form(Shat), axis=0)
PolyOf(site, it, ShatNow) ==
  [site |-> site, it |-> it, val |-> Concatenate(polynomial_form(ShatNow))]

\* Proj_error = S - Sref - (Vr @ Shat)
ProjError(SNow, SrefNow, VrNow, ShatNow) ==
  [S |-> Id(SNow), Sref |-> Id(SrefNow), Vr |-> Id(VrNow), Shat |-> ColIds(ShatNow)]

\* Vbar.T @ Proj_error @ Poly.T @ np.linalg.inv(Poly @ Poly.T + gamma * I)
Regression(site, it, VbarNow, VrNow, ShatNow, PolyNow) ==
  [site |-> site, it |-> it,
   args |-> [Vbar |-> Id(VbarNow),
             Proj_error |-> ProjError(S, Sref, VrNow, ShatNow),
             Poly |-> Id(PolyNow), gamma |-> gamma]]

\* Omega = Um @ Vm of svd((S - Sref) @ np.concatenate([Shat, Xi @ Poly]).T):
\* one column per row of [Shat; Xi @ Poly]
Procrustes(site, it, ShatNow, XiNow, PolyNow) ==
  [site |-> site, it |-> it, width |-> Width(Vr) + Width(Vbar),
   args |-> [S |-> Id(S), Sref |-> Id(Sref), Shat |-> ColIds(ShatNow),
             Xi |-> Id(XiNow), Poly |-> Id(PolyNow)]]

\* representation_learning_obj: what the residual of sample j reads
representation_learning_obj(j) ==
  [S |-> Id(S), sample |-> j, sref |-> Id(Sref),
   Vr |-> Id(Vr), Vbar |-> Id(Vbar), Xi |-> Id(Xi)]

\* opt.least_squares(representation_learning_obj, x0, ftol=1e-9).x
LeastSquares(site, it, j, x0) ==
  [site |-> site, it |-> it, col |-> j,
   args |-> [obj |-> representation_learning_obj(j), x0 |-> Id(x0), x0col |-> x0.col]]

\* Sref + (Vr @ Shat) + (Vbar @ Xi @ Poly)
Reconstruct(site, it) ==
  [site |-> site, it |-> it,
   args |-> [Sref |-> Id(Sref), Vr |-> Id(Vr), Shat |-> ColIds(Shat),
             Vbar |-> Id(Vbar), Xi |-> Id(Xi), Poly |-> Id(Poly)]]

\* ------------------------------------------------------------ floats

IsFinite(e) == e >= 0

\* abs(energy - nrg_old)
AbsDiff(a, b) ==
  IF IsFinite(a) /\ IsFinite(b) THEN (IF a >= b THEN a - b ELSE b - a) ELSE NaN

\* a < b on floats
LessThan(a, b) == IsFinite(a) /\ IsFinite(b) /\ a < b

\* the values the energy quotient can take: its denominator is
\* norm(S - Sref)**2, which is 0 exactly when S has zero variance
EnergyValues == IF S.zeroVar THEN {NaN} ELSE 0 .. MaxEnergy

\* one executed step: "A", "B", "C" (one sample), "P" (Poly recomputed) or
\* "check" (with the energy it computed)
Entry(step, it, col, e) ==
  [step |-> step, it |-> it, col |-> col, energy |-> e]

\* ------------------------------------------------------------ Init

Init ==
  /\ num_snapshots \in 1 .. MaxSnapshots
  /\ \E z \in BOOLEAN :
       /\ (num_snapshots = 1 => z)
       /\ S = [site |-> 92, it |-> 0, cols |-> num_snapshots, zeroVar |-> z]
  /\ Sref = [site |-> 94, it |-> 0]
  /\ gamma \in GammaValues
  /\ tol \in 1 .. MaxTol
  /\ max_iter \in 1 .. MaxIter
  /\ U = Undef /\ Vr = Undef /\ Vbar = Undef /\ Omega = Undef
  /\ Shat = << >> /\ Poly = Undef /\ Xi = Undef
  /\ nrg_old = 0 /\ energy = 0 /\ diff = 0
  /\ niter = -1 /\ snapshot = -1
  /\ Gamma_MAM = Undef
  /\ pc = "pod" /\ error = "none"
  /\ stdout = << >> /\ trace = << >>

\* ------------------------------------------------------------ cells 1 and 2

\* U, ss, _ = svd(S - Sref); Vr = U[:, :r]; Shat = Vr.T @ (S - Sref);
\* Gamma_POD = ...; print(relative_error)   (0/0 is nan and a warning)
PODCell ==
  /\ pc = "pod"
  /\ U' = Svd(210, 0, S, Sref)
  /\ Vr' = Slice(211, 0, U', 0, r)
  /\ Shat' = [j \in Columns |-> Project(212, 0, j, Vr', S, Sref)]
  /\ stdout' = Append(stdout, "Reconstruction error (POD)")
  /\ pc' = "mpod"
  /\ UNCHANGED <<S, Sref, num_snapshots, gamma, tol, max_iter, Vbar, Omega,
                 Poly, Xi, nrg_old, energy, diff, niter, snapshot, Gamma_MAM,
                 error, trace>>

\* Poly @ Poly.T is ((p-1)*rows of Shat) square, the identity is (p-1)*r square
ShapesAgree(VrNow) == (p - 1) * Width(VrNow) = (p - 1) * r

\* Poly @ Poly.T + gamma*I is the zero matrix
GramIsZero == gamma = 0 /\ S.zeroVar

\* Poly @ Poly.T + gamma*I can be singular (it is positive definite for gamma > 0)
GramMayBeSingular == gamma = 0

\* Vbar = U[:, r:r+q]; Proj_error; Poly; Xi = ... inv(...); Gamma_MPOD; print
MPODCell ==
  /\ pc = "mpod"
  /\ Vbar' = Slice(256, 0, U, r, r + q)
  /\ Poly' = PolyOf(258, 0, Shat)
  /\ \/ /\ ~ShapesAgree(Vr)
        /\ error' = "ValueError" /\ pc' = "raised"
        /\ UNCHANGED <<Xi, stdout>>
     \/ /\ ShapesAgree(Vr) /\ GramMayBeSingular
        /\ error' = "LinAlgError" /\ pc' = "raised"
        /\ UNCHANGED <<Xi, stdout>>
     \/ /\ ShapesAgree(Vr) /\ ~GramIsZero
        /\ Xi' = Regression(259, 0, Vbar', Vr, Shat, Poly')
        /\ stdout' = Append(stdout, "Reconstruction error (MPOD)")
        /\ pc' = "loop_init"
        /\ UNCHANGED error
  /\ UNCHANGED <<S, Sref, num_snapshots, gamma, tol, max_iter, U, Vr, Omega,
                 Shat, nrg_old, energy, diff, niter, snapshot, Gamma_MAM, trace>>

\* ------------------------------------------------------------ cell 3

\* nrg_old = 0; print("***Starting alternating minimizations:")
LoopInit ==
  /\ pc = "loop_init"
  /\ nrg_old' = 0
  /\ stdout' = Append(stdout, "***Starting alternating minimizations:")
  /\ pc' = "for"
  /\ UNCHANGED <<S, Sref, num_snapshots, gamma, tol, max_iter, U, Vr, Vbar,
                 Omega, Shat, Poly, Xi, energy, diff, niter, snapshot,
                 Gamma_MAM, error, trace>>

\* variant: the loop bound is off by one (niter runs up to max_iter)
ForNiter_OffByOne ==
  /\ pc = "for"
  /\ \/ /\ niter + 1 <= max_iter
        /\ niter' = niter + 1
        /\ pc' = "step1"
     \/ /\ ~(niter + 1 <= max_iter)
        /\ pc' = "final"
        /\ UNCHANGED niter
  /\ UNCHANGED <<S, Sref, num_snapshots, gamma, tol, max_iter, U, Vr, Vbar,
                 Omega, Shat, Poly, Xi, nrg_old, energy, diff, snapshot,
                 Gamma_MAM, error, stdout, trace>>

\* for niter in range(max_iter):
ForNiter ==
  /\ pc = "for"
  /\ \/ /\ niter + 1 < max_iter
        /\ niter' = niter + 1
        /\ pc' = "step1"
     \/ /\ ~(niter + 1 < max_iter)
        /\ pc' = "final"
        /\ UNCHANGED niter
  /\ UNCHANGED <<S, Sref, num_snapshots, gamma, tol, max_iter, U, Vr, Vbar,
                 Omega, Shat, Poly, Xi, nrg_old, energy, diff, snapshot,
                 Gamma_MAM, error, stdout, trace>>

\* variant: the reduced coordinates are projected again onto the basis that
\* Step A has just updated
Step1_Reprojects ==
  /\ pc = "step1"
  /\ Omega' = Procrustes(316, niter + 1, Shat, Xi, Poly)
  /\ Vr' = Slice(317, niter + 1, Omega', 0, r)
  /\ Vbar' = Slice(317, niter + 1, Omega', r, r + q)
  /\ Shat' = [j \in Columns |-> Project(318, niter + 1, j, Vr', S, Sref)]
  /\ trace' = Append(trace, Entry("A", niter + 1, -1, 0))
  /\ pc' = "step2"
  /\ UNCHANGED <<S, Sref, num_snapshots, gamma, tol, max_iter, U, Poly,
                 Xi, nrg_old, energy, diff, niter, snapshot, Gamma_MAM, error,
                 stdout>>

\* variant: only the primary basis is taken from the new Omega
Step1_KeepsVbar ==
  /\ pc = "step1"
  /\ Omega' = Procrustes(316, niter + 1, Shat, Xi, Poly)
  /\ Vr' = Slice(317, niter + 1, Omega', 0, r)
  /\ trace' = Append(trace, Entry("A", niter + 1, -1, 0))
  /\ pc' = "step2"
  /\ UNCHANGED <<S, Sref, num_snapshots, gamma, tol, max_iter, U, Vbar, Shat,
                 Poly, Xi, nrg_old, energy, diff, niter, snapshot, Gamma_MAM,
                 error, stdout>>

\* step 1 - orthogonal Procrustes (update basis vectors)
Step1 ==
  /\ pc = "step1"
  /\ Omega' = Procrustes(316, niter + 1, Shat, Xi, Poly)
  /\ Vr' = Slice(317, niter + 1, Omega', 0, r)
  /\ Vbar' = Slice(317, niter + 1, Omega', r, r + q)
  /\ trace' = Append(trace, Entry("A", niter + 1, -1, 0))
  /\ pc' = "step2"
  /\ UNCHANGED <<S, Sref, num_snapshots, gamma, tol, max_iter, U, Shat, Poly,
                 Xi, nrg_old, energy, diff, niter, snapshot, Gamma_MAM, error,
                 stdout>>

\* step 2 - linear regression (update coefficient matrix).  In iteration 1
\* the matrix inverted is the one line 259 has inverted already.
Step2 ==
  /\ pc = "step2"
  /\ \/ /\ GramMayBeSingular /\ niter >= 1
        /\ error' = "LinAlgError" /\ pc' = "raised"
        /\ UNCHANGED <<Xi, snapshot, trace>>
     \/ /\ Xi' = Regression(322, niter + 1, Vbar, Vr, Shat, Poly)
        /\ trace' = Append(trace, Entry("B", niter + 1, -1, 0))
        /\ snapshot' = -1
        /\ pc' = "step3"
        /\ UNCHANGED error
  /\ UNCHANGED <<S, Sref, num_snapshots, gamma, tol, max_iter, U, Vr, Vbar,
                 Omega, Shat, Poly, nrg_old, energy, diff, niter, Gamma_MAM,
                 stdout>>

\* variant: each solve starts from a fresh projection onto the current basis
\* instead of the sample's previous reduced coordinates
Step3Solve_StartsFromProjection ==
  /\ pc = "step3"
  /\ snapshot + 1 < num_snapshots
  /\ snapshot' = snapshot + 1
  /\ Shat' = [Shat EXCEPT ![snapshot'] =
                LeastSquares(326, niter + 1, snapshot',
                             Project(326, niter + 1, snapshot', Vr, S, Sref))]
  /\ trace' = Append(trace, Entry("C", niter + 1, snapshot', 0))
  /\ UNCHANGED <<S, Sref, num_snapshots, gamma, tol, max_iter, U, Vr, Vbar,
                 Omega, Poly, Xi, nrg_old, energy, diff, niter, Gamma_MAM, pc,
                 error, stdout>>

\* variant: Poly is recomputed inside the loop over the snapshots
Step3Solve_RecomputesPoly ==
  /\ pc = "step3"
  /\ snapshot + 1 < num_snapshots
  /\ snapshot' = snapshot + 1
  /\ Shat' = [Shat EXCEPT ![snapshot'] =
                LeastSquares(326, niter + 1, snapshot', Shat[snapshot'])]
  /\ Poly' = PolyOf(327, niter + 1, Shat')
  /\ trace' = Append(trace, Entry("C", niter + 1, snapshot', 0))
  /\ UNCHANGED <<S, Sref, num_snapshots, gamma, tol, max_iter, U, Vr, Vbar,
                 Omega, Xi, nrg_old, energy, diff, niter, Gamma_MAM, pc,
                 error, stdout>>

\* variant: each solve is warm-started from the column solved just before it
Step3Solve_NeighbourStart ==
  /\ pc = "step3"
  /\ snapshot + 1 < num_snapshots
  /\ snapshot' = snapshot + 1
  /\ Shat' = [Shat EXCEPT ![snapshot'] =
                LeastSquares(326, niter + 1, snapshot',
                             Shat[IF snapshot < 0 THEN 0 ELSE snapshot])]
  /\ trace' = Append(trace, Entry("C", niter + 1, snapshot', 0))
  /\ UNCHANGED <<S, Sref, num_snapshots, gamma, tol, max_iter, U, Vr, Vbar,
                 Omega, Poly, Xi, nrg_old, energy, diff, niter, Gamma_MAM, pc,
                 error, stdout>>

\* step 3, one pass of: for snapshot in range(num_snapshots):
\*     Shat[:, snapshot] = opt.least_squares(..., Shat[:, snapshot], ...).x
Step3Solve ==
  /\ pc = "step3"
  /\ snapshot + 1 < num_snapshots
  /\ snapshot' = snapshot + 1
  /\ Shat' = [Shat EXCEPT ![snapshot'] =
                LeastSquares(326, niter + 1, snapshot', Shat[snapshot'])]
  /\ trace' = Append(trace, Entry("C", niter + 1, snapshot', 0))
  /\ UNCHANGED <<S, Sref, num_snapshots, gamma, tol, max_iter, U, Vr, Vbar,
                 Omega, Poly, Xi, nrg_old, energy, diff, niter, Gamma_MAM, pc,
                 error, stdout>>

\* step 3, after the loop over the snapshots: Poly = np.concatenate(...)
Step3Poly ==
  /\ pc = "step3"
  /\ ~(snapshot + 1 < num_snapshots)
  /\ Poly' = PolyOf(327, niter + 1, Shat)
  /\ trace' = Append(trace, Entry("P", niter + 1, -1, 0))
  /\ pc' = "evaluate"
  /\ UNCHANGED <<S, Sref, num_snapshots, gamma, tol, max_iter, U, Vr, Vbar,
                 Omega, Shat, Xi, nrg_old, energy, diff, niter, snapshot,
                 Gamma_MAM, error, stdout>>

\* evaluate convergence criterion: energy, diff, print(iteration ...)
Evaluate ==
  /\ pc = "evaluate"
  /\ energy' \in EnergyValues
  /\ diff' = AbsDiff(energy', nrg_old)
  /\ stdout' = Append(stdout, "iteration")
  /\ trace' = Append(trace, Entry("check", niter + 1, -1, energy'))
  /\ pc' = "converge"
  /\ UNCHANGED <<S, Sref, num_snapshots, gamma, tol, max_iter, U, Vr, Vbar,
                 Omega, Shat, Poly, Xi, nrg_old, niter, snapshot, Gamma_MAM,
                 error>>

\* variant: the criterion is diff <= tol
Converge_LessOrEqual ==
  /\ pc = "converge"
  /\ \/ /\ (LessThan(diff, tol) \/ diff = tol)
        /\ stdout' = Append(stdout, "***Convergence criterion active!")
        /\ pc' = "final"
        /\ UNCHANGED nrg_old
     \/ /\ ~(LessThan(diff, tol) \/ diff = tol)
        /\ nrg_old' = energy
        /\ pc' = "for"
        /\ UNCHANGED stdout
  /\ UNCHANGED <<S, Sref, num_snapshots, gamma, tol, max_iter, U, Vr, Vbar,
                 Omega, Shat, Poly, Xi, energy, diff, niter, snapshot,
                 Gamma_MAM, error, trace>>

\* variant: the break is missing
Converge_NoBreak ==
  /\ pc = "converge"
  /\ \/ /\ LessThan(diff, tol)
        /\ stdout' = Append(stdout, "***Convergence criterion active!")
     \/ /\ ~LessThan(diff, tol)
        /\ UNCHANGED stdout
  /\ nrg_old' = energy
  /\ pc' = "for"
  /\ UNCHANGED <<S, Sref, num_snapshots, gamma, tol, max_iter, U, Vr, Vbar,
                 Omega, Shat, Poly, Xi, energy, diff, niter, snapshot,
                 Gamma_MAM, error, trace>>

\* if diff < tol: print(...); break
\* nrg_old = energy
Converge ==
  /\ pc = "converge"
  /\ \/ /\ LessThan(diff, tol)
        /\ stdout' = Append(stdout, "***Convergence criterion active!")
        /\ pc' = "final"
        /\ UNCHANGED nrg_old
     \/ /\ ~LessThan(diff, tol)
        /\ nrg_old' = energy
        /\ pc' = "for"
        /\ UNCHANGED stdout
  /\ UNCHANGED <<S, Sref, num_snapshots, gamma, tol, max_iter, U, Vr, Vbar,
                 Omega, Shat, Poly, Xi, energy, diff, niter, snapshot,
                 Gamma_MAM, error, trace>>

\* variant: the coefficient matrix is fitted once more, against the final
\* reduced coordinates, before the reconstruction
Final_RefitsXi ==
  /\ pc = "final"
  /\ Xi' = Regression(338, niter + 1, Vbar, Vr, Shat, Poly)
  /\ Gamma_MAM' =
       [site |-> 339, it |-> niter + 1,
        args |-> [Sref |-> Id(Sref), Vr |-> Id(Vr), Shat |-> ColIds(Shat),
                  Vbar |-> Id(Vbar), Xi |-> Id(Xi'), Poly |-> Id(Poly)]]
  /\ stdout' = Append(stdout, "Reconstruction error (MAM)")
  /\ pc' = "done"
  /\ UNCHANGED <<S, Sref, num_snapshots, gamma, tol, max_iter, U, Vr, Vbar,
                 Omega, Shat, Poly, nrg_old, energy, diff, niter, snapshot,
                 error, trace>>

\* Gamma_MAM = Sref + (Vr @ Shat) + (Vbar @ Xi @ Poly); print(relative_error)
Final ==
  /\ pc = "final"
  /\ Gamma_MAM' = Reconstruct(339, niter + 1)
  /\ stdout' = Append(stdout, "Reconstruction error (MAM)")
  /\ pc' = "done"
  /\ UNCHANGED <<S, Sref, num_snapshots, gamma, tol, max_iter, U, Vr, Vbar,
                 Omega, Shat, Poly, Xi, nrg_old, energy, diff, niter, snapshot,
                 error, trace>>

Next ==
  \/ PODCell
  \/ MPODCell
  \/ LoopInit
  \/ ForNiter
  \/ Step1
  \/ Step2
  \/ Step3Solve
  \/ Step3Poly
  \/ Evaluate
  \/ Converge
  \/ Final

Spec == Init /\ [][Next]_vars

\* the notebook runs to the end of each cell: no step waits for anything
FairSpec == Spec /\ WF_vars(Next)
\* ------------------------------------------------------------ history

\* the outer iteration in progress, counted from 1 as the notebook prints it
It == niter + 1

IsCheck(e) == e.step = "check"

\* the convergence checks executed so far, in order
Checks == SelectSeq(trace, IsCheck)

\* the energy of the iteration before check i (the running energy starts at 0)
PrevEnergy(i) == IF i = 1 THEN 0 ELSE Checks[i - 1].energy

\* |energy - previous_energy| < tol at check i
Below(i) == LessThan(AbsDiff(Checks[i].energy, PrevEnergy(i)), tol)

\* the loop has been left by break or by exhausting range(max_iter)
LoopEnded == pc \in {"final", "done"}

Terminated == pc \in {"done", "raised"}

\* ------------------------------------------------------------ C1

LoopBounded ==
  /\ Len(Checks) <= max_iter
  /\ \A m \in 1 .. Len(trace) : trace[m].it \in 1 .. max_iter
  /\ \A i \in 1 .. Len(Checks) : Checks[i].it = i
  \* an iteration that satisfies the criterion is the last one
  /\ \A i \in 1 .. Len(Checks) :
       Below(i) => /\ i = Len(Checks)
                   /\ IsCheck(trace[Len(trace)])
  /\ LoopEnded =>
       /\ Len(Checks) >= 1
       /\ Len(Checks) = It
       /\ Below(Len(Checks)) \/ Len(Checks) = max_iter

\* C1: for every max_iter >= 1, tol > 0 and every sequence of energies, the
\* outer loop terminates after at most max_iter iterations: it ends at the
\* end of the first iteration with |energy - previous_energy| < tol, and
\* after exactly max_iter iterations if there is none.
C1_LoopTerminatesWithinBudget == [] LoopBounded /\ <> Terminated

\* a run that used the whole budget without meeting the criterion
C1_Witness ==
  /\ pc = "done" /\ max_iter >= 2 /\ Len(Checks) = max_iter
  /\ \A i \in 1 .. Len(Checks) : ~Below(i)

\* ------------------------------------------------------------ C2

ConvergedMessage == "***Convergence criterion active!"

Printed(msg) == \E i \in 1 .. Len(stdout) : stdout[i] = msg

\* the status a caller can read off the state the loop leaves behind
Status ==
  IF LessThan(diff, tol) THEN <<"converged", It>> ELSE <<"budget-exhausted">>

\* C2: when the outer loop ends, the state tells "converged at iteration N"
\* apart from "budget exhausted", also when convergence happens exactly at
\* iteration max_iter, and exhausting the budget raises no exception.
C2_StatusDistinguishesExhaustion ==
  LoopEnded =>
    /\ error = "none"
    /\ Len(Checks) >= 1
    /\ Below(Len(Checks)) =>
         /\ Status = <<"converged", Len(Checks)>>
         /\ Printed(ConvergedMessage)
    /\ ~Below(Len(Checks)) =>
         /\ Status = <<"budget-exhausted">>
         /\ ~Printed(ConvergedMessage)
         /\ Len(Checks) = max_iter

\* the budget is used up and the last iteration did not converge
C2_Witness ==
  /\ pc = "done" /\ error = "none"
  /\ Len(Checks) = max_iter /\ ~Below(Len(Checks))
  /\ Status = <<"budget-exhausted">>

\* ------------------------------------------------------------ C3

\* trace entries of one complete outer iteration: A, B, C per sample, P, check
PerIteration == num_snapshots + 4

ExpectedIt(m) == ((m - 1) \div PerIteration) + 1

Offset(m) == (m - 1) % PerIteration

ExpectedStep(m) ==
  IF Offset(m) = 0 THEN "A"
  ELSE IF Offset(m) = 1 THEN "B"
  ELSE IF Offset(m) <= num_snapshots + 1 THEN "C"
  ELSE IF Offset(m) = num_snapshots + 2 THEN "P" ELSE "check"

ExpectedCol(m) == IF ExpectedStep(m) = "C" THEN Offset(m) - 2 ELSE -1

\* C3: in every outer iteration Step A, Step B and Step C run exactly once and
\* in that order, the convergence check runs only after Step C of the same
\* iteration, and no step of the next iteration starts before the check has
\* decided not to stop.
C3_StepsInOrder ==
  /\ \A m \in 1 .. Len(trace) :
       /\ trace[m].step = ExpectedStep(m)
       /\ trace[m].it = ExpectedIt(m)
       /\ trace[m].col = ExpectedCol(m)
  /\ \A i \in 1 .. Len(Checks) :
       (i * PerIteration < Len(trace)) => ~Below(i)
  \* the position in the code agrees with the steps executed
  /\ pc = "step1" => Len(trace) = niter * PerIteration
  /\ pc = "evaluate" => Len(trace) = It * PerIteration - 1
  /\ pc \in {"converge", "final", "done"} => Len(trace) = It * PerIteration

\* the second iteration has run all its steps
C3_Witness ==
  /\ pc = "converge" /\ niter = 1 /\ num_snapshots >= 2
  /\ Len(trace) = 2 * PerIteration
\* ------------------------------------------------------------ generations

\* the columns of Shat as Step C of iteration i left them (i = 0: the POD cell)
ShatWrittenIn(i) == IF i = 0 THEN <<212, 0>> ELSE <<326, i>>

\* Poly as iteration i left it (i = 0: the POD-based manifold cell)
PolyWrittenIn(i) == IF i = 0 THEN <<258, 0>> ELSE <<327, i>>

\* Xi as iteration i left it
XiWrittenIn(i) == IF i = 0 THEN <<259, 0>> ELSE <<322, i>>

AllColumns(id) == [j \in Columns |-> id]

Expansion(X) == Concatenate(polynomial_form(X))

\* ------------------------------------------------------------ C4

\* C4: in every outer iteration i, Step B computes Xi from the bases written
\* by Step A of iteration i and from the reduced coordinates and polynomial
\* features as Step C of iteration i-1 (or the initialisation) left them;
\* neither changes between the end of the previous Step C and the end of
\* Step B.
C4_StepBReadsPreviousCoordinates ==
  /\ Xi.site = 322 =>
       /\ Xi.args.Vbar = <<317, Xi.it>>
       /\ Xi.args.Proj_error.Vr = <<317, Xi.it>>
       /\ Xi.args.Proj_error.Shat = AllColumns(ShatWrittenIn(Xi.it - 1))
       /\ Xi.args.Poly = PolyWrittenIn(Xi.it - 1)
  /\ (pc \in {"step1", "step2"} \/ (pc = "step3" /\ snapshot = -1)) =>
       /\ ColIds(Shat) = AllColumns(ShatWrittenIn(niter))
       /\ Id(Poly) = PolyWrittenIn(niter)
       /\ Poly.val = Expansion(Shat)
  /\ (pc = "step3" /\ snapshot = -1) => Id(Xi) = <<322, It>>

\* Step B of the second iteration has just run
C4_Witness ==
  /\ pc = "step3" /\ snapshot = -1 /\ niter = 1
  /\ Xi.args.Proj_error.Shat = AllColumns(<<326, 1>>)
  /\ Xi.args.Vbar = <<317, 2>>

\* ------------------------------------------------------------ C5

IsProjection(c) == c.site = 212

\* C5 as the specification states it: right after the basis update of Step A
\* the reduced coordinates are the projection of the centred data onto the
\* updated primary basis.
C5_ReprojectedAfterBasisUpdate ==
  pc = "step2" =>
    \A j \in Columns : IsProjection(Shat[j]) /\ Shat[j].args.Vr = Id(Vr)

\* C5 (amended): the reduced coordinates are projected onto the primary basis
\* once, in the POD cell before the loop, onto the POD basis; in every outer
\* iteration they are written at one point only, the per-sample solves of
\* Step C, each starting from the column the previous iteration left.
\* Step A leaves them as they are.
C5_ProjectedOnceRefinedInStepC ==
  /\ \A j \in DOMAIN Shat :
       \/ /\ IsProjection(Shat[j])
          /\ Shat[j].it = 0
          /\ Shat[j].args.Vr = <<211, 0>>
       \/ /\ Shat[j].site = 326
          /\ Shat[j].it \in 1 .. It
          /\ Shat[j].args.x0 = ShatWrittenIn(Shat[j].it - 1)
  /\ pc = "step2" => ColIds(Shat) = AllColumns(ShatWrittenIn(niter))
  /\ pc \in {"evaluate", "converge", "final", "done"} =>
       ColIds(Shat) = AllColumns(<<326, It>>)

\* Step A of the second iteration has run and the coordinates are still those
\* Step C of the first iteration wrote
C5_Witness ==
  /\ pc = "step2" /\ niter = 1
  /\ Id(Vr) = <<317, 2>>
  /\ ColIds(Shat) = AllColumns(<<326, 1>>)

\* ------------------------------------------------------------ C6

\* where Step A, Step B, the convergence check and the final reconstruction
\* read Poly
PolyIsRead == pc \in {"step1", "step2", "evaluate", "final"}

\* C6: the polynomial features are recomputed only after all k per-sample
\* solves of Step C, never between two of them, and wherever Step A, Step B,
\* the convergence check or the final reconstruction reads them they equal
\* the polynomial expansion of the reduced coordinates as they stand.
C6_PolyMatchesCoordinatesWhenRead ==
  /\ PolyIsRead => Poly.val = Expansion(Shat)
  /\ pc = "step3" => Id(Poly) = PolyWrittenIn(niter)
  /\ pc \in {"evaluate", "converge", "final", "done"} => Id(Poly) = <<327, It>>

\* the check of the second iteration reads features recomputed from k >= 2
\* refined columns
C6_Witness ==
  /\ pc = "evaluate" /\ niter = 1 /\ num_snapshots >= 2
  /\ Id(Poly) = <<327, 2>>
  /\ Poly.val = Expansion(Shat)

\* ------------------------------------------------------------ C7

\* what the solve of sample j of iteration It must have written
SolvedColumn(j) ==
  [site |-> 326, it |-> It, col |-> j,
   args |-> [obj |-> [S |-> <<92, 0>>, sample |-> j, sref |-> <<94, 0>>,
                      Vr |-> <<317, It>>, Vbar |-> <<317, It>>,
                      Xi |-> <<322, It>>],
             x0 |-> ShatWrittenIn(niter), x0col |-> j]]

StepCSnapshot ==
  pc = "step3" =>
    /\ Id(Vr) = <<317, It>> /\ Id(Vbar) = <<317, It>> /\ Id(Xi) = <<322, It>>
    /\ \A j \in Columns :
         IF j <= snapshot THEN Shat[j] = SolvedColumn(j)
         ELSE Id(Shat[j]) = ShatWrittenIn(niter)

\* one per-sample solve: it writes column snapshot' and nothing else
SolveFrame ==
  (pc = "step3" /\ pc' = "step3") =>
    /\ UNCHANGED <<S, Sref, Vr, Vbar, Xi, Omega, Poly>>
    /\ \A j \in Columns : j # snapshot' => Shat'[j] = Shat[j]
    /\ Shat'[snapshot'].args.x0 = Id(Shat[snapshot'])

\* C7: during Step C the solve for sample j reads the bases and the
\* coefficient tensor as fixed at the start of that Step C, starts from
\* sample j's own previous reduced coordinates and writes only column j, so
\* the result for column j does not depend on the order of the samples.
C7_SolveReadsSnapshotWritesOwnColumn == [] StepCSnapshot /\ [][SolveFrame]_vars

\* all columns of the second iteration are solved, k >= 2
C7_Witness ==
  /\ pc = "step3" /\ niter = 1 /\ num_snapshots >= 2
  /\ snapshot = num_snapshots - 1
  /\ \A j \in Columns : Shat[j] = SolvedColumn(j)

\* ------------------------------------------------------------ C8

BasesAssigned == pc \notin {"pod", "mpod"}

\* the factorization the bases must come from: U until Step A has run,
\* the Omega of the last Step A afterwards
CurrentFactorization ==
  IF niter < 0 \/ (niter = 0 /\ pc = "step1") THEN <<210, 0>>
  ELSE IF pc = "step1" THEN <<316, niter>> ELSE <<316, It>>

\* C8: in every reachable state from the initialisation on, the primary and
\* the auxiliary basis are the column ranges [0, r) and [r, r+q) of one and
\* the same matrix produced by a single factorization (U at initialisation,
\* the Omega of the current iteration afterwards); they are updated together
\* and share no column.
C8_BasesFromOneFactorization ==
  BasesAssigned =>
    /\ Vr.of = Vbar.of
    /\ Vr.of = CurrentFactorization
    /\ Vr.it = Vbar.it
    /\ Vr.cols \subseteq 0 .. (r - 1)
    /\ Vbar.cols \subseteq r .. (r + q - 1)
    /\ Vr.cols \cap Vbar.cols = {}
    /\ Vr.of # <<210, 0>> => (Vr.of = Id(Omega) /\ Id(Vr) = Id(Vbar))
    /\ Vr.of = <<210, 0>> => Vr.of = Id(U)

\* both bases come from the Omega of the second iteration and are not empty
C8_Witness ==
  /\ pc = "step2" /\ niter = 1
  /\ Vr.of = <<316, 2>> /\ Vbar.of = <<316, 2>>
  /\ Vr.cols = 0 .. (r - 1) /\ Vbar.cols = r .. (r + q - 1)

\* ------------------------------------------------------------ C9

\* k <= r+q, or every column equal to the reference state
DegenerateInput == num_snapshots <= r + q \/ S.zeroVar

\* C9: for degenerate input the pipeline reports a precondition violation
\* before the first outer iteration starts: no Step A, B or C is executed
\* and no basis, coefficient tensor or reduced coordinate is updated.
C9_DegenerateInputFailsFast ==
  DegenerateInput =>
    /\ niter = -1
    /\ trace = << >>
    /\ pc \notin {"for", "step1", "step2", "step3", "evaluate", "converge",
                  "final", "done"}

\* ------------------------------------------------------------ C10

\* C10: whenever the learner stops after N >= 1 iterations, the returned
\* reduced coordinates and polynomial features are those written by Step C of
\* iteration N, while the returned bases and coefficient tensor were computed
\* in Steps A and B of iteration N from the reduced coordinates of iteration
\* N-1; they are never refitted against the returned coordinates, and the
\* final reconstruction combines the two generations.
C10_ReturnedStateMixesGenerations ==
  pc = "done" =>
    /\ It >= 1
    /\ ColIds(Shat) = AllColumns(<<326, It>>)
    /\ Id(Poly) = <<327, It>> /\ Poly.val = Expansion(Shat)
    /\ Id(Vr) = <<317, It>> /\ Id(Vbar) = <<317, It>>
    /\ Vr.of = Id(Omega) /\ Vbar.of = Id(Omega)
    /\ Omega.args.Shat = AllColumns(ShatWrittenIn(It - 1))
    /\ Omega.args.Poly = PolyWrittenIn(It - 1)
    /\ Omega.args.Xi = XiWrittenIn(It - 1)
    /\ Id(Xi) = <<322, It>>
    /\ Xi.args.Proj_error.Shat = AllColumns(ShatWrittenIn(It - 1))
    /\ Xi.args.Poly = PolyWrittenIn(It - 1)
    /\ Xi.args.Proj_error.Shat # ColIds(Shat)
    /\ Gamma_MAM.args.Shat = ColIds(Shat)
    /\ Gamma_MAM.args.Poly = Id(Poly)
    /\ Gamma_MAM.args.Xi = Id(Xi)
    /\ Gamma_MAM.args.Vr = Id(Vr) /\ Gamma_MAM.args.Vbar = Id(Vbar)

\* the learner converged in its second iteration
C10_Witness ==
  /\ pc = "done" /\ niter = 1 /\ max_iter >= 3
  /\ Gamma_MAM.args.Shat = AllColumns(<<326, 2>>)
  /\ Xi.args.Proj_error.Shat = AllColumns(<<326, 1>>)
====
